---- MODULE Spec2Model ----
(***************************************************************************)
(* The timetable page of the school console (TimetablePage.jsx): the       *)
(* `periods` and `timetable` tables of the data store, and for every       *)
(* browser session the React state of the page and the asynchronous        *)
(* handlers it has in flight.  A handler is cut at its awaits: one action  *)
(* per piece of code that runs between two awaits, the store call it       *)
(* awaited being executed by the store in that same step.  With it, the    *)
(* create-student function (supabase/functions/create-student/index.ts):   *)
(* the auth principals, the student table and the requests it is serving.  *)
(***************************************************************************)
EXTENDS Integers, Sequences, FiniteSets, Bags, TLC

\* ---------------------------------------------------------------- bounds
\* rows the periods table may hold
MaxPeriods == 3
\* rows the timetable table may hold
MaxRows == 4
\* handlers (add / assign / copy) one session may have in flight
MaxTasks == 2
\* fetches (fetchPeriods / fetchTimetable) one session may have in flight
MaxFetches == 2
\* store calls that may fail in one run
MaxFaults == 1
\* the highest period number a result of a select carries
MaxNumber == 60

\* ------------------------------------------------------- input universes
\* browser sessions; both belong to the same school
Clients == {1, 2}
\* ids of the class_instances rows of that school
Classes == {1, 2}
\* ids of the subjects rows and of the admin (teacher) rows
Subjects == {1, 2}
Teachers == {7}
\* calendar days the date pickers are set to, as the day of the year 2025
\* (5 and 20 January)
Days == {5, 20}
\* the same with a day of another month (5 February)
MonthDays == {5, 20, 36}
\* the options of the duration Select
UIDurations == {30, 35, 40, 45, 50, 60}
\* the options the specifications below draw from it
SomeDurations == {30, 45, 60}
\* values handleDurationChange can be called with when the Select does not
\* stand before it
AnyDurations == {45, 0, -30}
\* times of day the TimePicker is set to, in minutes after midnight:
\* 09:00 and 23:30
StartTimes == {540, 1410}

\* the requests the create-student function receives
FnRequests == {1, 2}
\* user_metadata.role of the requester of a request
Roles == {"superadmin", "admin", "student"}

\* an optional value (null / undefined in the code) is a sequence of length
\* at most one
Null == <<>>
Some(v) == <<v>>
Val(o) == o[1]
Nullable(S) == {Null} \cup {Some(x) : x \in S}

\* ----------------------------------------------------------- time and date
MinutesPerDay == 24 * 60

\* dayjs(t).add(d, 'minute'): an instant, in minutes after this midnight
AddMinutes(t, d) == t + d

\* dayjs(t).format('HH:mm:ss'): the wall-clock time of an instant, the date
\* dropped
FormatTime(t) ==
    LET m == t % MinutesPerDay
    IN  <<m \div 60, m % 60, 0>>

\* dayjs(d).format('YYYY-MM-DD'), d a day of January or February 2025
FormatDate(d) == IF d <= 31 THEN <<2025, 1, d>> ELSE <<2025, 2, d - 31>>

\* dayjs(d).startOf('month') and dayjs(d).endOf('month')
StartOfMonth(d) == IF d <= 31 THEN 1 ELSE 32
EndOfMonth(d) == IF d <= 31 THEN 31 ELSE 59

\* the order of two 'YYYY-MM-DD' (or 'HH:mm:ss') texts
TextLess(a, b) ==
    \/ a[1] < b[1]
    \/ a[1] = b[1] /\ a[2] < b[2]
    \/ a[1] = b[1] /\ a[2] = b[2] /\ a[3] < b[3]

\* ------------------------------------------------------------ the session
\* user.user_metadata.school_code and .super_admin_code of a session
SchoolCodeOf(c) == "S1"
CreatedByOf(c) == IF c = 1 THEN "SA1" ELSE "SA2"

VARIABLES
    periodsTbl,     \* the periods table: a bag of rows
    timetableTbl,   \* the timetable table: a bag of rows
    selectedClass,  \* per session: optional class id
    selectedDate,   \* per session: optional day
    viewMode,       \* per session: "day" or "month"
    copyFromDate,   \* per session: optional day
    periods,        \* per session: the period rows the page holds, in order
    timetable,      \* per session: the timetable rows the page holds
    monthData,      \* per session: the rows the month view holds
    loading,        \* per session: the loading flag
    assigning,      \* per session: the assigning flag
    modalVisible,   \* per session: the assign modal is open
    editingPeriod,  \* per session: optional period number
    formValues,     \* per session: subject_id and teacher_id of the modal form
    duration,       \* per session: the duration state
    startTime,      \* per session: optional instant
    endTime,        \* per session: optional instant
    tasks,          \* per session: the handlers in flight
    fetches,        \* per session: the fetches in flight
    faults,         \* the store calls that have failed so far
    authUsers,      \* the auth principals: a set of user ids
    studentTbl,     \* the student table: a set of rows
    requests,       \* per request of create-student: where it stands
    existing,       \* a result of the select of the highest period number
    nextPeriodNumber \* optional: the number computed from existing

storeVars == <<periodsTbl, timetableTbl>>
selVars == <<selectedClass, selectedDate, viewMode, copyFromDate>>
viewVars == <<periods, timetable, monthData>>
modalVars == <<modalVisible, editingPeriod, formValues>>
smartVars == <<duration, startTime, endTime>>
fnVars == <<authUsers, studentTbl, requests>>
numVars == <<existing, nextPeriodNumber>>
vars == <<periodsTbl, timetableTbl, selectedClass, selectedDate, viewMode,
          copyFromDate, periods, timetable, monthData, loading, assigning,
          modalVisible, editingPeriod, formValues, duration, startTime,
          endTime, tasks, fetches, faults, authUsers, studentTbl, requests,
          existing, nextPeriodNumber>>

\* ------------------------------------------------------------------ bags
RECURSIVE SumCopies(_, _)
SumCopies(B, S) ==
    IF S = {} THEN 0
    ELSE LET x == CHOOSE y \in S : TRUE
         IN  B[x] + SumCopies(B, S \ {x})

\* the rows of B that satisfy P, with their multiplicities
BagFilter(B, P(_)) == [r \in {x \in DOMAIN B : P(x)} |-> B[r]]

\* the bag of F(r) for the rows r of B
BagMap(F(_), B) ==
    [y \in {F(x) : x \in DOMAIN B} |->
        SumCopies(B, {x \in DOMAIN B : F(x) = y})]

BagOfSeq(s) ==
    [x \in {s[i] : i \in DOMAIN s} |-> Cardinality({i \in DOMAIN s : s[i] = x})]

\* ------------------------------------------------------- the data store
\* from('periods').select('*').eq('class_instance_id', cls)
PeriodsOfClass(tbl, cls) ==
    BagFilter(tbl, LAMBDA r : r.class_instance_id = cls)

\* .order('period_number'): the rows in ascending period_number; the order
\* of rows with equal period_number is the store's choice
OrderedByNumber(B) ==
    {s \in [1..BagCardinality(B) -> DOMAIN B] :
        /\ BagOfSeq(s) = B
        /\ \A i \in 1..(Len(s) - 1) : s[i].period_number <= s[i + 1].period_number}

\* .select('period_number').order('period_number', {ascending: false}).limit(1)
HighestNumber(tbl, cls) ==
    LET ns == {r.period_number : r \in DOMAIN PeriodsOfClass(tbl, cls)}
    IN  IF ns = {} THEN <<>>
        ELSE <<[period_number |-> Some(CHOOSE n \in ns : \A m \in ns : m <= n)]>>

\* from('timetable') ... .eq('class_instance_id', cls).eq('class_date', date)
OnDate(tbl, cls, date) ==
    BagFilter(tbl, LAMBDA r : r.class_instance_id = cls /\ r.class_date = date)

\* ... .eq('class_instance_id', cls).gte('class_date', start).lte('class_date', end)
InMonth(tbl, cls, start, end) ==
    BagFilter(tbl, LAMBDA r : /\ r.class_instance_id = cls
                              /\ ~TextLess(r.class_date, start)
                              /\ ~TextLess(end, r.class_date))

\* ... .eq('period_number', pn)
OnKey(tbl, cls, date, pn) ==
    BagFilter(tbl, LAMBDA r : /\ r.class_instance_id = cls
                              /\ r.class_date = date
                              /\ r.period_number = pn)

\* DeleteKey with the period number off by one
DeleteKey_NextPeriod(tbl, cls, date, pn) ==
    BagFilter(tbl, LAMBDA r : ~(/\ r.class_instance_id = cls
                                /\ r.class_date = date
                                /\ r.period_number = pn + 1))

\* DeleteKey without the filter on class_date
DeleteKey_AnyDate(tbl, cls, date, pn) ==
    BagFilter(tbl, LAMBDA r : ~(/\ r.class_instance_id = cls
                                /\ r.period_number = pn))

\* DeleteKey with a filter that matches no row: the old row stays
DeleteKey_Nothing(tbl, cls, date, pn) == tbl

\* from('timetable').delete().eq(...).eq(...).eq('period_number', pn)
DeleteKey(tbl, cls, date, pn) ==
    BagFilter(tbl, LAMBDA r : ~(/\ r.class_instance_id = cls
                                /\ r.class_date = date
                                /\ r.period_number = pn))

\* DeleteDate without the filter on class_instance_id
DeleteDate_AnyClass(tbl, cls, date) ==
    BagFilter(tbl, LAMBDA r : r.class_date # date)

\* DeleteDate left out: the rows of the target date stay
DeleteDate_Kept(tbl, cls, date) == tbl

\* from('timetable').delete().eq('class_instance_id', cls).eq('class_date', date)
DeleteDate(tbl, cls, date) ==
    BagFilter(tbl, LAMBDA r : ~(r.class_instance_id = cls /\ r.class_date = date))

\* .select('period_number, subject_id, admin_id')
DayColumns(r) ==
    [period_number |-> r.period_number, subject_id |-> r.subject_id,
     admin_id |-> r.admin_id]

\* .select('class_date, period_number')
MonthColumns(r) ==
    [class_date |-> r.class_date, period_number |-> r.period_number]

\* .select('period_number, subject_id, admin_id, start_time, end_time')
CopyColumns(r) ==
    [period_number |-> r.period_number, subject_id |-> r.subject_id,
     admin_id |-> r.admin_id, start_time |-> r.start_time,
     end_time |-> r.end_time]

\* ------------------------------------------------------------- handlers
\* data?.[0]?.period_number: Null is undefined, the value of the chain when
\* data has no first row or the row has no period_number
FirstNumber(data) ==
    IF data = <<>> THEN Null ELSE data[1].period_number

\* v + 1: Null is NaN, the sum of undefined and 1
PlusOne(v) == IF v = Null THEN Null ELSE Some(Val(v) + 1)

\* OrOne with 0 as the fallback
OrOne_OrZero(v) == IF v = Null \/ v = Some(0) THEN 0 ELSE Val(v)

\* v || 1: NaN and 0 are the numbers that are falsy
OrOne(v) == IF v = Null \/ v = Some(0) THEN 1 ELSE Val(v)

\* NextPeriodNumber without the + 1
NextPeriodNumber_NoIncrement(data) == OrOne(FirstNumber(data))

\* existing?.[0]?.period_number + 1 || 1
NextPeriodNumber(data) == OrOne(PlusOne(FirstNumber(data)))

\* the row handleAddSmartPeriod inserts
PeriodRow(cls, num, start, end) ==
    [class_instance_id |-> cls, period_number |-> num,
     start_time |-> FormatTime(start), end_time |-> FormatTime(end)]

\* AssignRow with subject_id filled from the teacher field
AssignRow_Swapped(c, cls, date, pn, subject, teacher, period) ==
    [class_instance_id |-> cls, class_date |-> FormatDate(date),
     period_number |-> pn, subject_id |-> teacher, admin_id |-> teacher,
     school_code |-> SchoolCodeOf(c), start_time |-> period.start_time,
     end_time |-> period.end_time, created_by |-> CreatedByOf(c)]

\* AssignRow with created_by filled from schoolCode
AssignRow_CreatedBySchool(c, cls, date, pn, subject, teacher, period) ==
    [class_instance_id |-> cls, class_date |-> FormatDate(date),
     period_number |-> pn, subject_id |-> subject, admin_id |-> teacher,
     school_code |-> SchoolCodeOf(c), start_time |-> period.start_time,
     end_time |-> period.end_time, created_by |-> SchoolCodeOf(c)]

\* the row handleAssign inserts
AssignRow(c, cls, date, pn, subject, teacher, period) ==
    [class_instance_id |-> cls, class_date |-> FormatDate(date),
     period_number |-> pn, subject_id |-> subject, admin_id |-> teacher,
     school_code |-> SchoolCodeOf(c), start_time |-> period.start_time,
     end_time |-> period.end_time, created_by |-> CreatedByOf(c)]

\* CopyRow with end_time filled from the entry's start_time
CopyRow_EndFromStart(c, cls, date, entry) ==
    [class_instance_id |-> cls, class_date |-> FormatDate(date),
     period_number |-> entry.period_number, subject_id |-> entry.subject_id,
     admin_id |-> entry.admin_id, school_code |-> SchoolCodeOf(c),
     start_time |-> entry.start_time, end_time |-> entry.start_time,
     created_by |-> CreatedByOf(c)]

\* CopyRow with the class and the date read from the selection as it is when
\* the inserts are built
CopyRow_Selected(c, cls, date, entry) ==
    [class_instance_id |-> Val(selectedClass[c]),
     class_date |-> FormatDate(Val(selectedDate[c])),
     period_number |-> entry.period_number, subject_id |-> entry.subject_id,
     admin_id |-> entry.admin_id, school_code |-> SchoolCodeOf(c),
     start_time |-> entry.start_time, end_time |-> entry.end_time,
     created_by |-> CreatedByOf(c)]

\* one element of the inserts handleCopyTimetable builds from a source entry
CopyRow(c, cls, date, entry) ==
    [class_instance_id |-> cls, class_date |-> FormatDate(date),
     period_number |-> entry.period_number, subject_id |-> entry.subject_id,
     admin_id |-> entry.admin_id, school_code |-> SchoolCodeOf(c),
     start_time |-> entry.start_time, end_time |-> entry.end_time,
     created_by |-> CreatedByOf(c)]

\* NoSourceRows without the length test
NoSourceRows_Never(data) == FALSE

\* !data || data.length === 0
NoSourceRows(data) == data = EmptyBag

\* const [duration, setDuration] = useState(45)
DefaultDuration == 45

\* a handler in flight: the state its closure captured when it was called,
\* the await it stands at (pc), what the store returned to it, the message it
\* showed, and (removed, wrote) the rows its delete and its insert changed
NoTask ==
    [op |-> "", pc |-> "", cls |-> Null, date |-> Null, from |-> Null,
     pn |-> Null, subject |-> Null, teacher |-> Null, period |-> Null,
     start |-> Null, end |-> Null, dur |-> DefaultDuration, num |-> Null,
     data |-> EmptyBag, removed |-> EmptyBag, wrote |-> EmptyBag,
     toast |-> ""]

\* a fetch in flight, with the class and the date its closure captured
PeriodsFetch(cls) == [kind |-> "periods", cls |-> cls, date |-> Null]
TimetableFetch(cls, date) ==
    [kind |-> "timetable", cls |-> cls, date |-> Some(date)]
MonthFetch(cls, date) ==
    [kind |-> "month", cls |-> cls, date |-> Some(date)]

\* a request of create-student: the await it stands at (pc), its body's
\* class_instance_id, the principal createUser returned to it, its roll
\* number, and the response it sent (status, error)
NoRequest ==
    [pc |-> "none", cls |-> Null, user |-> Null, roll |-> Null, status |-> 0,
     error |-> ""]

\* the page as it is mounted
Mounted ==
    /\ selectedClass = [c \in Clients |-> Null]
    /\ selectedDate = [c \in Clients |-> Some(5)]
    /\ viewMode = [c \in Clients |-> "day"]
    /\ copyFromDate = [c \in Clients |-> Null]
    /\ periods = [c \in Clients |-> <<>>]
    /\ timetable = [c \in Clients |-> {}]
    /\ monthData = [c \in Clients |-> EmptyBag]
    /\ loading = [c \in Clients |-> FALSE]
    /\ assigning = [c \in Clients |-> FALSE]
    /\ modalVisible = [c \in Clients |-> FALSE]
    /\ editingPeriod = [c \in Clients |-> Null]
    /\ formValues = [c \in Clients |-> [subject_id |-> Null, teacher_id |-> Null]]
    /\ duration = [c \in Clients |-> DefaultDuration]
    /\ startTime = [c \in Clients |-> Null]
    /\ endTime = [c \in Clients |-> Null]
    /\ tasks = [c \in Clients |-> {}]
    /\ fetches = [c \in Clients |-> {}]
    /\ faults = 0

\* the create-student function is deployed: no principal, no student row,
\* no request yet
Deployed ==
    /\ authUsers = {}
    /\ studentTbl = {}
    /\ requests = [r \in FnRequests |-> NoRequest]

\* no result of the select of the highest period number is at hand
NotRead ==
    /\ existing = <<>>
    /\ nextPeriodNumber = Null

\* the pages are mounted on an empty store
Init ==
    /\ periodsTbl = EmptyBag
    /\ timetableTbl = EmptyBag
    /\ Mounted
    /\ Deployed
    /\ NotRead

\* the pages are mounted on a store in which class 1 has been given two
\* periods, 09:00-09:45 and 09:45-10:30, and class 2 none
InitSeeded ==
    /\ periodsTbl = SetToBag({PeriodRow(1, 1, 540, AddMinutes(540, 45)),
                              PeriodRow(1, 2, 585, AddMinutes(585, 45))})
    /\ timetableTbl = EmptyBag
    /\ Mounted
    /\ Deployed
    /\ NotRead

\* the pages are mounted on a store in which, besides, the session of the
\* other super admin has assigned both periods of class 1 on 5 January
InitHandOver ==
    /\ periodsTbl = SetToBag({PeriodRow(1, 1, 540, AddMinutes(540, 45)),
                              PeriodRow(1, 2, 585, AddMinutes(585, 45))})
    /\ timetableTbl =
          SetToBag({AssignRow(2, 1, 5, 1, 1, 7, PeriodRow(1, 1, 540, AddMinutes(540, 45))),
                    AssignRow(2, 1, 5, 2, 2, 7, PeriodRow(1, 2, 585, AddMinutes(585, 45)))})
    /\ Mounted
    /\ Deployed
    /\ NotRead

\* the rows that assigns on 5 and 20 January and 5 February have left
MonthRows ==
    {AssignRow(1, 1, 5, 1, 1, 7, PeriodRow(1, 1, 540, AddMinutes(540, 45))),
     AssignRow(1, 1, 5, 2, 2, 7, PeriodRow(1, 2, 585, AddMinutes(585, 45))),
     AssignRow(1, 1, 20, 1, 1, 7, PeriodRow(1, 1, 540, AddMinutes(540, 45))),
     AssignRow(1, 1, 36, 1, 2, 7, PeriodRow(1, 1, 540, AddMinutes(540, 45)))}

\* the pages are mounted on a store that holds any of these rows
InitMonth ==
    /\ periodsTbl = SetToBag({PeriodRow(1, 1, 540, AddMinutes(540, 45)),
                              PeriodRow(1, 2, 585, AddMinutes(585, 45))})
    /\ timetableTbl \in {SetToBag(S) : S \in SUBSET MonthRows}
    /\ Mounted
    /\ Deployed
    /\ NotRead

\* the pages are mounted on a store in which period 2 of class 1 was
\* assigned, on 20 January, a subject that the subjects table no longer has
InitGrid ==
    /\ periodsTbl = SetToBag({PeriodRow(1, 1, 540, AddMinutes(540, 45)),
                              PeriodRow(1, 2, 585, AddMinutes(585, 45))})
    /\ timetableTbl =
          SetToBag({AssignRow(2, 1, 20, 2, 3, 7, PeriodRow(1, 2, 585, AddMinutes(585, 45)))})
    /\ Mounted
    /\ Deployed
    /\ NotRead

\* the pages are mounted on a store of a school with two classes: class 1
\* has its two periods, class 2 has one period 10:00-10:45, and the other
\* super admin has assigned period 1 of class 1 on 5 January and 5 February,
\* period 2 of class 1 on 20 January and period 1 of class 2 on 5 January
InitSchool ==
    /\ periodsTbl = SetToBag({PeriodRow(1, 1, 540, AddMinutes(540, 45)),
                              PeriodRow(1, 2, 585, AddMinutes(585, 45)),
                              PeriodRow(2, 1, 600, AddMinutes(600, 45))})
    /\ timetableTbl =
          SetToBag({AssignRow(2, 1, 5, 1, 1, 7, PeriodRow(1, 1, 540, AddMinutes(540, 45))),
                    AssignRow(2, 1, 20, 2, 2, 7, PeriodRow(1, 2, 585, AddMinutes(585, 45))),
                    AssignRow(2, 1, 36, 1, 2, 7, PeriodRow(1, 1, 540, AddMinutes(540, 45))),
                    AssignRow(2, 2, 5, 1, 1, 7, PeriodRow(2, 1, 600, AddMinutes(600, 45)))})
    /\ Mounted
    /\ Deployed
    /\ NotRead

\* what the select of the highest period number can give: no row, or one
\* row whose period_number is missing or a number handleAddSmartPeriod wrote
ReadResults ==
    {<<>>} \cup {<<[period_number |-> n]>> : n \in Nullable(1..MaxNumber)}

\* the pages are mounted on an empty store and a result of the select of the
\* highest period number is at hand
InitNumber ==
    /\ periodsTbl = EmptyBag
    /\ timetableTbl = EmptyBag
    /\ Mounted
    /\ Deployed
    /\ existing \in ReadResults
    /\ nextPeriodNumber = Null

\* ---------------------------------------------------------- what is shown
\* the assign modal is open: its mask covers the page
PageFree(c) == ~modalVisible[c]

\* the smart-add form and the grid are rendered (day view, a class selected)
\* and not covered by the Spin
GridFree(c) ==
    /\ PageFree(c)
    /\ viewMode[c] = "day"
    /\ selectedClass[c] # Null
    /\ ~loading[c]

\* the subjects and teachers states, as fetchSubjects and fetchTeachers set
\* them when the page was mounted
subjects == {[id |-> 1, subject_name |-> "Maths"],
             [id |-> 2, subject_name |-> "Physics"]}
teachers == {[id |-> 7, full_name |-> "Asha"]}

\* subjects.find(s => s.id === entry?.subject_id)?.subject_name || '-'
SubjectName(entry) ==
    LET found == {x \in subjects : entry # Null /\ x.id = Val(entry).subject_id}
    IN  IF found = {} THEN "-" ELSE (CHOOSE x \in found : TRUE).subject_name

\* teachers.find(t => t.id === entry?.admin_id)?.full_name || '-'
TeacherName(entry) ==
    LET found == {x \in teachers : entry # Null /\ x.id = Val(entry).admin_id}
    IN  IF found = {} THEN "-" ELSE (CHOOSE x \in found : TRUE).full_name

\* the <tr> of renderGrid with find's test left out: the entry is the first
\* row of the timetable state
GridRow_FirstEntry(p, tt) ==
    LET entry == IF tt = {} THEN Null ELSE Some(CHOOSE e \in tt : TRUE)
    IN  [period_number |-> p.period_number, start_time |-> p.start_time,
         end_time |-> p.end_time, subject |-> SubjectName(entry),
         teacher |-> TeacherName(entry),
         action |-> IF entry # Null THEN "Edit" ELSE "Assign"]

\* the <tr> renderGrid makes of a period; entry is
\* timetable.find(t => t.period_number === p.period_number), the first of
\* the rows with this number in the order the store returned them
GridRow(p, tt) ==
    LET found == {e \in tt : e.period_number = p.period_number}
        entry == IF found = {} THEN Null ELSE Some(CHOOSE e \in found : TRUE)
    IN  [period_number |-> p.period_number, start_time |-> p.start_time,
         end_time |-> p.end_time, subject |-> SubjectName(entry),
         teacher |-> TeacherName(entry),
         action |-> IF entry # Null THEN "Edit" ELSE "Assign"]

\* periods.length > 0 ? renderGrid() : ...: the rows of the grid
RenderGrid(c) == [i \in DOMAIN periods[c] |-> GridRow(periods[c][i], timetable[c])]

\* periods.find(p => p.period_number === editingPeriod)
FindPeriod(view, pn) ==
    LET idx == {i \in DOMAIN view : Some(view[i].period_number) = pn}
    IN  IF idx = {} THEN Null
        ELSE Some(view[CHOOSE i \in idx : \A j \in idx : i <= j])

\* the fetches the two selection effects start after a render in which the
\* class, the date object or the view mode changed
EffectFetches(oldCls, newCls, dateSet, oldMode, newMode, newDate) ==
    (IF newCls # oldCls /\ newCls # Null
        THEN {PeriodsFetch(Val(newCls))} ELSE {})
    \cup
    (IF /\ (newCls # oldCls \/ dateSet \/ newMode # oldMode)
        /\ newCls # Null
        /\ newMode = "day"
        /\ newDate # Null
        THEN {TimetableFetch(Val(newCls), Val(newDate))} ELSE {})

\* the fetch the effect of MonthCalendarView starts after a render in which
\* the view was mounted, or its classId or selectedMonth changed
MonthEffectFetches(oldCls, newCls, dateSet, oldMode, newMode, newDate) ==
    IF /\ newMode = "month"
       /\ (oldMode # "month" \/ newCls # oldCls \/ dateSet)
       /\ newCls # Null
       /\ newDate # Null
       THEN {MonthFetch(Val(newCls), Val(newDate))} ELSE {}

\* the fetches are started
Spawn(c, new) ==
    /\ Cardinality(fetches[c] \cup new) <= MaxFetches
    /\ fetches' = [fetches EXCEPT ![c] = @ \cup new]

\* the effects' fetches are started after a render with view mode newMode;
\* fetchPeriods sets the loading flag first.  MonthCalendarView and its
\* monthData exist while the view mode is "month": what a fetchMonthData in
\* flight sets on a view that is gone is never seen
StartFetches(c, oldMode, newMode, new) ==
    /\ LET kept == IF newMode = "month" THEN fetches[c]
                   ELSE {f \in fetches[c] : f.kind # "month"}
       IN  /\ Cardinality(kept \cup new) <= MaxFetches
           /\ fetches' = [fetches EXCEPT ![c] = kept \cup new]
    /\ loading' = [loading EXCEPT ![c] =
                     IF \E f \in new : f.kind = "periods" THEN TRUE ELSE @]
    /\ monthData' = [monthData EXCEPT ![c] =
                       IF oldMode = "month" /\ newMode = "month" THEN @
                       ELSE EmptyBag]

Replace(c, t, t2) == tasks' = [tasks EXCEPT ![c] = (@ \ {t}) \cup {t2}]

Begin(c, t) ==
    /\ Cardinality(tasks[c]) < MaxTasks
    /\ tasks' = [tasks EXCEPT ![c] = @ \cup {t}]

\* ------------------------------------------------------- the selections
\* the class Select's onChange
SelectClass(c, k) ==
    /\ PageFree(c)
    /\ selectedClass[c] # Some(k) \/ viewMode[c] # "day"
    /\ selectedClass' = [selectedClass EXCEPT ![c] = Some(k)]
    /\ viewMode' = [viewMode EXCEPT ![c] = "day"]
    /\ StartFetches(c, viewMode[c], "day",
                    EffectFetches(selectedClass[c], Some(k), FALSE,
                                  viewMode[c], "day", selectedDate[c]))
    /\ UNCHANGED <<storeVars, selectedDate, copyFromDate, periods, timetable,
                   assigning, modalVars, smartVars, tasks>>

\* the date picker's onChange (d is Null when the picker is cleared)
SelectDate(c, d) ==
    /\ PageFree(c)
    /\ d # Null \/ selectedDate[c] # Null
    /\ selectedDate' = [selectedDate EXCEPT ![c] = d]
    /\ StartFetches(c, viewMode[c], viewMode[c],
                    EffectFetches(selectedClass[c], selectedClass[c], TRUE,
                                  viewMode[c], viewMode[c], d)
                    \cup MonthEffectFetches(selectedClass[c], selectedClass[c],
                                            TRUE, viewMode[c], viewMode[c], d))
    /\ UNCHANGED <<storeVars, selectedClass, viewMode, copyFromDate, periods,
                   timetable, assigning, modalVars, smartVars, tasks>>

\* the view Select's onChange
SetViewMode(c, m) ==
    /\ PageFree(c)
    /\ m # viewMode[c]
    /\ viewMode' = [viewMode EXCEPT ![c] = m]
    /\ StartFetches(c, viewMode[c], m,
                    EffectFetches(selectedClass[c], selectedClass[c], FALSE,
                                  viewMode[c], m, selectedDate[c])
                    \cup MonthEffectFetches(selectedClass[c], selectedClass[c],
                                            FALSE, viewMode[c], m, selectedDate[c]))
    /\ UNCHANGED <<storeVars, selectedClass, selectedDate, copyFromDate,
                   periods, timetable, assigning, modalVars, smartVars, tasks>>

\* the Calendar's onSelect in the month view: onSelectDate
MonthSelectDate(c, d) ==
    /\ PageFree(c)
    /\ viewMode[c] = "month"
    /\ selectedClass[c] # Null
    /\ selectedDate' = [selectedDate EXCEPT ![c] = Some(d)]
    /\ viewMode' = [viewMode EXCEPT ![c] = "day"]
    /\ StartFetches(c, "month", "day",
                    EffectFetches(selectedClass[c], selectedClass[c], TRUE,
                                  "month", "day", Some(d)))
    /\ UNCHANGED <<storeVars, selectedClass, copyFromDate, periods, timetable,
                   assigning, modalVars, smartVars, tasks>>

\* the "Copy from date" picker's onChange, disabled while no class is selected
SetCopyFromDate(c, d) ==
    /\ PageFree(c)
    /\ selectedClass[c] # Null
    /\ d # copyFromDate[c]
    /\ copyFromDate' = [copyFromDate EXCEPT ![c] = d]
    /\ UNCHANGED <<storeVars, selectedClass, selectedDate, viewMode, viewVars,
                   loading, assigning, modalVars, smartVars, tasks, fetches>>

\* ------------------------------------------------------------- fetches
\* fetchPeriods, from its await on
FetchPeriodsDone(c, f, ok) ==
    /\ f \in fetches[c]
    /\ f.kind = "periods"
    /\ fetches' = [fetches EXCEPT ![c] = @ \ {f}]
    /\ IF ok
          THEN \E s \in OrderedByNumber(PeriodsOfClass(periodsTbl, f.cls)) :
                  periods' = [periods EXCEPT ![c] = s]
          ELSE UNCHANGED periods
    /\ loading' = [loading EXCEPT ![c] = FALSE]
    /\ UNCHANGED <<storeVars, selVars, timetable, monthData, assigning,
                   modalVars, smartVars, tasks>>

\* fetchTimetable, from its await on
FetchTimetableDone(c, f, ok) ==
    /\ f \in fetches[c]
    /\ f.kind = "timetable"
    /\ fetches' = [fetches EXCEPT ![c] = @ \ {f}]
    /\ IF ok
          THEN timetable' = [timetable EXCEPT ![c] =
                  {DayColumns(r) :
                     r \in DOMAIN OnDate(timetableTbl, f.cls,
                                         FormatDate(Val(f.date)))}]
          ELSE UNCHANGED timetable
    /\ UNCHANGED <<storeVars, selVars, periods, monthData, loading, assigning,
                   modalVars, smartVars, tasks>>

\* fetchMonthData of the month view, from its await on
FetchMonthDone(c, f, ok) ==
    /\ f \in fetches[c]
    /\ f.kind = "month"
    /\ fetches' = [fetches EXCEPT ![c] = @ \ {f}]
    /\ monthData' = [monthData EXCEPT ![c] =
          IF ok
             THEN BagMap(MonthColumns,
                         InMonth(timetableTbl, f.cls,
                                 FormatDate(StartOfMonth(Val(f.date))),
                                 FormatDate(EndOfMonth(Val(f.date)))))
             ELSE EmptyBag]
    /\ UNCHANGED <<storeVars, selVars, periods, timetable, loading, assigning,
                   modalVars, smartVars, tasks>>

\* countsByDate with map.set(key, 1)
CountsByDate_Presence(data) ==
    [d \in {r.class_date : r \in DOMAIN data} |-> 1]

\* countsByDate: the number of rows of monthData per class_date
CountsByDate(data) ==
    [d \in {r.class_date : r \in DOMAIN data} |->
        SumCopies(data, {r \in DOMAIN data : r.class_date = d})]

\* ------------------------------------------------------ smart add period
\* handleStartTimeChange (time is Null when the TimePicker is cleared)
HandleStartTimeChange(c, time) ==
    /\ startTime' = [startTime EXCEPT ![c] = time]
    /\ endTime' = [endTime EXCEPT ![c] =
                     IF time # Null /\ duration[c] # 0
                        THEN Some(AddMinutes(Val(time), duration[c]))
                        ELSE @]
    /\ UNCHANGED <<storeVars, selVars, viewVars, loading, assigning, modalVars,
                   duration, tasks, fetches>>

\* handleDurationChange without the recomputation of the end time
HandleDurationChange_Stale(c, val) ==
    /\ duration' = [duration EXCEPT ![c] = val]
    /\ UNCHANGED <<storeVars, selVars, viewVars, loading, assigning, modalVars,
                   startTime, endTime, tasks, fetches>>

\* handleDurationChange
HandleDurationChange(c, val) ==
    /\ duration' = [duration EXCEPT ![c] = val]
    /\ endTime' = [endTime EXCEPT ![c] =
                     IF startTime[c] # Null
                        THEN Some(AddMinutes(Val(startTime[c]), val))
                        ELSE @]
    /\ UNCHANGED <<storeVars, selVars, viewVars, loading, assigning, modalVars,
                   startTime, tasks, fetches>>

\* handleAddSmartPeriod without the test of selectedClass
HandleAddSmartPeriod_NoClassTest(c) ==
    /\ LET t == [NoTask EXCEPT !.op = "add", !.cls = selectedClass[c],
                               !.start = startTime[c], !.end = endTime[c],
                               !.dur = duration[c]]
       IN  IF startTime[c] = Null \/ endTime[c] = Null
              THEN /\ Begin(c, [t EXCEPT !.pc = "done",
                                         !.toast = "Please select class and time"])
                   /\ UNCHANGED loading
              ELSE /\ Begin(c, [t EXCEPT !.pc = "read"])
                   /\ loading' = [loading EXCEPT ![c] = TRUE]
    /\ UNCHANGED <<storeVars, selVars, viewVars, assigning, modalVars,
                   smartVars, fetches>>

\* handleAddSmartPeriod, up to its first await
HandleAddSmartPeriod(c) ==
    /\ LET t == [NoTask EXCEPT !.op = "add", !.cls = selectedClass[c],
                               !.start = startTime[c], !.end = endTime[c],
                               !.dur = duration[c]]
       IN  IF startTime[c] = Null \/ endTime[c] = Null \/ selectedClass[c] = Null
              THEN /\ Begin(c, [t EXCEPT !.pc = "done",
                                         !.toast = "Please select class and time"])
                   /\ UNCHANGED loading
              ELSE /\ Begin(c, [t EXCEPT !.pc = "read"])
                   /\ loading' = [loading EXCEPT ![c] = TRUE]
    /\ UNCHANGED <<storeVars, selVars, viewVars, assigning, modalVars,
                   smartVars, fetches>>

\* handleAddSmartPeriod, from the select of the highest number to the insert
AddRead(c, t, ok) ==
    /\ t \in tasks[c]
    /\ t.op = "add"
    /\ t.pc = "read"
    /\ IF ok
          THEN /\ Replace(c, t, [t EXCEPT !.pc = "insert",
                     !.num = Some(NextPeriodNumber(
                                    HighestNumber(periodsTbl, Val(t.cls))))])
               /\ UNCHANGED loading
          ELSE /\ Replace(c, t, [t EXCEPT !.pc = "done",
                     !.toast = "Error checking existing periods"])
               /\ loading' = [loading EXCEPT ![c] = FALSE]
    /\ UNCHANGED <<storeVars, selVars, viewVars, assigning, modalVars,
                   smartVars, fetches>>

\* handleAddSmartPeriod, from the insert on
AddInsert(c, t, ok) ==
    /\ t \in tasks[c]
    /\ t.op = "add"
    /\ t.pc = "insert"
    /\ IF ok
          THEN LET row == PeriodRow(Val(t.cls), Val(t.num), Val(t.start), Val(t.end))
               IN  /\ BagCardinality(periodsTbl) < MaxPeriods
                   /\ periodsTbl' = periodsTbl (+) SetToBag({row})
                   /\ Replace(c, t, [t EXCEPT !.pc = "done",
                                              !.wrote = SetToBag({row}),
                                              !.toast = "Added period"])
                   /\ startTime' = [startTime EXCEPT ![c] = Null]
                   /\ endTime' = [endTime EXCEPT ![c] = Null]
                   /\ Spawn(c, {PeriodsFetch(Val(t.cls))})
                   /\ loading' = [loading EXCEPT ![c] = FALSE]
          ELSE /\ Replace(c, t, [t EXCEPT !.pc = "done",
                                          !.toast = "Error adding period"])
               /\ loading' = [loading EXCEPT ![c] = FALSE]
               /\ UNCHANGED <<periodsTbl, startTime, endTime, fetches>>
    /\ UNCHANGED <<timetableTbl, selVars, viewVars, assigning, modalVars,
                   duration>>

\* the handler has returned: its closure and its message are gone
Return(c, t) ==
    /\ t \in tasks[c]
    /\ t.pc = "done"
    /\ tasks' = [tasks EXCEPT ![c] = @ \ {t}]
    /\ UNCHANGED <<storeVars, selVars, viewVars, loading, assigning, modalVars,
                   smartVars, fetches>>

\* ------------------------------------------------------------ the modal
\* openEditModal, from a row of the grid
OpenEditModal(c, pn) ==
    /\ GridFree(c)
    /\ \E i \in DOMAIN periods[c] : periods[c][i].period_number = pn
    /\ editingPeriod' = [editingPeriod EXCEPT ![c] = Some(pn)]
    /\ LET found == {e \in timetable[c] : e.period_number = pn}
       IN  \/ /\ found = {}
              /\ formValues' = [formValues EXCEPT ![c] =
                                  [subject_id |-> Null, teacher_id |-> Null]]
           \/ \E e \in found :
                 formValues' = [formValues EXCEPT ![c] =
                                  [subject_id |-> Some(e.subject_id),
                                   teacher_id |-> Some(e.admin_id)]]
    /\ modalVisible' = [modalVisible EXCEPT ![c] = TRUE]
    /\ UNCHANGED <<storeVars, selVars, viewVars, loading, assigning, smartVars,
                   tasks, fetches>>

\* the subject Select of the modal form
PickSubject(c, s) ==
    /\ modalVisible[c]
    /\ formValues' = [formValues EXCEPT ![c].subject_id = Some(s)]
    /\ UNCHANGED <<storeVars, selVars, viewVars, loading, assigning,
                   modalVisible, editingPeriod, smartVars, tasks, fetches>>

\* the teacher Select of the modal form
PickTeacher(c, s) ==
    /\ modalVisible[c]
    /\ formValues' = [formValues EXCEPT ![c].teacher_id = Some(s)]
    /\ UNCHANGED <<storeVars, selVars, viewVars, loading, assigning,
                   modalVisible, editingPeriod, smartVars, tasks, fetches>>

\* the modal's onCancel
CancelModal(c) ==
    /\ modalVisible[c]
    /\ modalVisible' = [modalVisible EXCEPT ![c] = FALSE]
    /\ formValues' = [formValues EXCEPT ![c] =
                        [subject_id |-> Null, teacher_id |-> Null]]
    /\ UNCHANGED <<storeVars, selVars, viewVars, loading, assigning,
                   editingPeriod, smartVars, tasks, fetches>>

\* --------------------------------------------------------------- assign
\* handleAssign (the modal's onOk), up to the await of the delete
HandleAssign(c) ==
    /\ modalVisible[c]
    /\ ~assigning[c]
    /\ LET period == FindPeriod(periods[c], editingPeriod[c])
           t == [NoTask EXCEPT !.op = "assign", !.cls = selectedClass[c],
                               !.date = selectedDate[c],
                               !.pn = editingPeriod[c],
                               !.subject = formValues[c].subject_id,
                               !.teacher = formValues[c].teacher_id,
                               !.period = period]
       IN  IF formValues[c].subject_id = Null \/ formValues[c].teacher_id = Null
              THEN /\ Begin(c, [t EXCEPT !.pc = "done", !.toast = "Unexpected error"])
                   /\ UNCHANGED assigning
           ELSE IF period = Null
              THEN /\ Begin(c, [t EXCEPT !.pc = "done", !.toast = "Period not found"])
                   /\ UNCHANGED assigning
           ELSE IF selectedDate[c] = Null
              THEN /\ Begin(c, [t EXCEPT !.pc = "done", !.toast = "Unexpected error"])
                   /\ UNCHANGED assigning
              ELSE /\ Begin(c, [t EXCEPT !.pc = "delete"])
                   /\ assigning' = [assigning EXCEPT ![c] = TRUE]
    /\ UNCHANGED <<storeVars, selVars, viewVars, loading, modalVars, smartVars,
                   fetches>>

\* handleAssign with the delete's error not looked at
AssignDelete_Unchecked(c, t, ok) ==
    /\ t \in tasks[c]
    /\ t.op = "assign"
    /\ t.pc = "delete"
    /\ timetableTbl' = IF ok THEN DeleteKey(timetableTbl, Val(t.cls),
                                            FormatDate(Val(t.date)), Val(t.pn))
                             ELSE timetableTbl
    /\ Replace(c, t, [t EXCEPT !.pc = "insert",
          !.removed = IF ok THEN OnKey(timetableTbl, Val(t.cls),
                                       FormatDate(Val(t.date)), Val(t.pn))
                            ELSE EmptyBag])
    /\ UNCHANGED <<periodsTbl, selVars, viewVars, loading, assigning, modalVars,
                   smartVars, fetches>>

\* handleAssign, from the delete to the await of the insert
AssignDelete(c, t, ok) ==
    /\ t \in tasks[c]
    /\ t.op = "assign"
    /\ t.pc = "delete"
    /\ IF ok
          THEN /\ timetableTbl' = DeleteKey(timetableTbl, Val(t.cls),
                                            FormatDate(Val(t.date)), Val(t.pn))
               /\ Replace(c, t, [t EXCEPT !.pc = "insert",
                     !.removed = OnKey(timetableTbl, Val(t.cls),
                                       FormatDate(Val(t.date)), Val(t.pn))])
               /\ UNCHANGED assigning
          ELSE /\ Replace(c, t, [t EXCEPT !.pc = "done",
                     !.toast = "Error removing existing assignment"])
               /\ assigning' = [assigning EXCEPT ![c] = FALSE]
               /\ UNCHANGED timetableTbl
    /\ UNCHANGED <<periodsTbl, selVars, viewVars, loading, modalVars, smartVars,
                   fetches>>

\* handleAssign putting back, when its insert fails, the rows its delete
\* removed
AssignInsert_RollingBack(c, t, ok) ==
    /\ t \in tasks[c]
    /\ t.op = "assign"
    /\ t.pc = "insert"
    /\ IF ok
          THEN LET row == AssignRow(c, Val(t.cls), Val(t.date), Val(t.pn),
                                    Val(t.subject), Val(t.teacher), Val(t.period))
               IN  /\ BagCardinality(timetableTbl) < MaxRows
                   /\ timetableTbl' = timetableTbl (+) SetToBag({row})
                   /\ Replace(c, t, [t EXCEPT !.pc = "done",
                                              !.wrote = SetToBag({row}),
                                              !.toast = "Assignment saved successfully"])
                   /\ modalVisible' = [modalVisible EXCEPT ![c] = FALSE]
                   /\ formValues' = [formValues EXCEPT ![c] =
                                       [subject_id |-> Null, teacher_id |-> Null]]
                   /\ Spawn(c, {TimetableFetch(Val(t.cls), Val(t.date))})
          ELSE /\ timetableTbl' = timetableTbl (+) t.removed
               /\ Replace(c, t, [t EXCEPT !.pc = "done",
                                          !.toast = "Error saving assignment"])
               /\ UNCHANGED <<modalVisible, formValues, fetches>>
    /\ assigning' = [assigning EXCEPT ![c] = FALSE]
    /\ UNCHANGED <<periodsTbl, selVars, viewVars, loading, editingPeriod,
                   smartVars>>

\* handleAssign, from the insert on
AssignInsert(c, t, ok) ==
    /\ t \in tasks[c]
    /\ t.op = "assign"
    /\ t.pc = "insert"
    /\ IF ok
          THEN LET row == AssignRow(c, Val(t.cls), Val(t.date), Val(t.pn),
                                    Val(t.subject), Val(t.teacher), Val(t.period))
               IN  /\ BagCardinality(timetableTbl) < MaxRows
                   /\ timetableTbl' = timetableTbl (+) SetToBag({row})
                   /\ Replace(c, t, [t EXCEPT !.pc = "done",
                                              !.wrote = SetToBag({row}),
                                              !.toast = "Assignment saved successfully"])
                   /\ modalVisible' = [modalVisible EXCEPT ![c] = FALSE]
                   /\ formValues' = [formValues EXCEPT ![c] =
                                       [subject_id |-> Null, teacher_id |-> Null]]
                   /\ Spawn(c, {TimetableFetch(Val(t.cls), Val(t.date))})
          ELSE /\ Replace(c, t, [t EXCEPT !.pc = "done",
                                          !.toast = "Error saving assignment"])
               /\ UNCHANGED <<timetableTbl, modalVisible, formValues, fetches>>
    /\ assigning' = [assigning EXCEPT ![c] = FALSE]
    /\ UNCHANGED <<periodsTbl, selVars, viewVars, loading, editingPeriod,
                   smartVars>>

\* ----------------------------------------------------------------- copy
\* handleCopyTimetable (the Copy Timetable button), up to its first await
HandleCopyTimetable(c) ==
    /\ PageFree(c)
    /\ selectedClass[c] # Null
    /\ ~loading[c]
    /\ LET t == [NoTask EXCEPT !.op = "copy", !.cls = selectedClass[c],
                               !.date = selectedDate[c],
                               !.from = copyFromDate[c]]
       IN  IF copyFromDate[c] = Null
              THEN /\ Begin(c, [t EXCEPT !.pc = "done",
                                         !.toast = "Select a source date first"])
                   /\ UNCHANGED loading
              ELSE /\ Begin(c, [t EXCEPT !.pc = "read"])
                   /\ loading' = [loading EXCEPT ![c] = TRUE]
    /\ UNCHANGED <<storeVars, selVars, viewVars, assigning, modalVars,
                   smartVars, fetches>>

\* handleCopyTimetable, from the select of the source date to the delete
CopyRead(c, t, ok) ==
    /\ t \in tasks[c]
    /\ t.op = "copy"
    /\ t.pc = "read"
    /\ LET data == BagMap(CopyColumns,
                          OnDate(timetableTbl, Val(t.cls), FormatDate(Val(t.from))))
       IN  IF ~ok
              THEN /\ Replace(c, t, [t EXCEPT !.pc = "done",
                         !.toast = "Error fetching source timetable"])
                   /\ loading' = [loading EXCEPT ![c] = FALSE]
           ELSE IF NoSourceRows(data)
              THEN /\ Replace(c, t, [t EXCEPT !.pc = "done",
                         !.toast = "No timetable found for that date"])
                   /\ loading' = [loading EXCEPT ![c] = FALSE]
           ELSE IF t.date = Null
              THEN /\ Replace(c, t, [t EXCEPT !.pc = "done", !.data = data,
                         !.toast = "Unexpected error"])
                   /\ loading' = [loading EXCEPT ![c] = FALSE]
              ELSE /\ Replace(c, t, [t EXCEPT !.pc = "delete", !.data = data])
                   /\ UNCHANGED loading
    /\ UNCHANGED <<storeVars, selVars, viewVars, assigning, modalVars,
                   smartVars, fetches>>

\* handleCopyTimetable with the delete's error not looked at
CopyDelete_Unchecked(c, t, ok) ==
    /\ t \in tasks[c]
    /\ t.op = "copy"
    /\ t.pc = "delete"
    /\ timetableTbl' = IF ok THEN DeleteDate(timetableTbl, Val(t.cls),
                                             FormatDate(Val(t.date)))
                             ELSE timetableTbl
    /\ Replace(c, t, [t EXCEPT !.pc = "insert",
          !.removed = IF ok THEN OnDate(timetableTbl, Val(t.cls),
                                        FormatDate(Val(t.date)))
                            ELSE EmptyBag])
    /\ UNCHANGED <<periodsTbl, selVars, viewVars, loading, assigning, modalVars,
                   smartVars, fetches>>

\* CopyDelete with setLoading(false) left out where the delete fails
CopyDelete_NoReset(c, t, ok) ==
    /\ t \in tasks[c]
    /\ t.op = "copy"
    /\ t.pc = "delete"
    /\ IF ok
          THEN /\ timetableTbl' = DeleteDate(timetableTbl, Val(t.cls),
                                             FormatDate(Val(t.date)))
               /\ Replace(c, t, [t EXCEPT !.pc = "insert",
                     !.removed = OnDate(timetableTbl, Val(t.cls),
                                        FormatDate(Val(t.date)))])
          ELSE /\ Replace(c, t, [t EXCEPT !.pc = "done",
                     !.toast = "Error clearing target date"])
               /\ UNCHANGED timetableTbl
    /\ UNCHANGED <<periodsTbl, selVars, viewVars, loading, assigning, modalVars,
                   smartVars, fetches>>

\* handleCopyTimetable, from the delete of the target date to the insert
CopyDelete(c, t, ok) ==
    /\ t \in tasks[c]
    /\ t.op = "copy"
    /\ t.pc = "delete"
    /\ IF ok
          THEN /\ timetableTbl' = DeleteDate(timetableTbl, Val(t.cls),
                                             FormatDate(Val(t.date)))
               /\ Replace(c, t, [t EXCEPT !.pc = "insert",
                     !.removed = OnDate(timetableTbl, Val(t.cls),
                                        FormatDate(Val(t.date)))])
               /\ UNCHANGED loading
          ELSE /\ Replace(c, t, [t EXCEPT !.pc = "done",
                     !.toast = "Error clearing target date"])
               /\ loading' = [loading EXCEPT ![c] = FALSE]
               /\ UNCHANGED timetableTbl
    /\ UNCHANGED <<periodsTbl, selVars, viewVars, assigning, modalVars,
                   smartVars, fetches>>

\* handleCopyTimetable, from the insert on
CopyInsert(c, t, ok) ==
    /\ t \in tasks[c]
    /\ t.op = "copy"
    /\ t.pc = "insert"
    /\ IF ok
          THEN LET inserts == BagMap(LAMBDA e : CopyRow(c, Val(t.cls), Val(t.date), e),
                                     t.data)
               IN  /\ BagCardinality(timetableTbl) + BagCardinality(inserts) <= MaxRows
                   /\ timetableTbl' = timetableTbl (+) inserts
                   /\ Replace(c, t, [t EXCEPT !.pc = "done", !.wrote = inserts,
                                              !.toast = "Timetable copied successfully"])
                   /\ Spawn(c, {TimetableFetch(Val(t.cls), Val(t.date))})
          ELSE /\ Replace(c, t, [t EXCEPT !.pc = "done",
                                          !.toast = "Error copying timetable"])
               /\ UNCHANGED <<timetableTbl, fetches>>
    /\ loading' = [loading EXCEPT ![c] = FALSE]
    /\ UNCHANGED <<periodsTbl, selVars, viewVars, assigning, modalVars,
                   smartVars>>

\* ----------------------------------------------------- the next number
\* const nextPeriodNumber = existing?.[0]?.period_number + 1 || 1
ComputeNumber ==
    /\ nextPeriodNumber' = Some(NextPeriodNumber(existing))
    /\ UNCHANGED <<existing, storeVars, selVars, viewVars, loading, assigning,
                   modalVars, smartVars, tasks, fetches, faults, fnVars>>

\* the select of the highest period number gives another result
ReadNumber ==
    /\ \E data \in ReadResults : existing' = data
    /\ nextPeriodNumber' = Null
    /\ UNCHANGED <<storeVars, selVars, viewVars, loading, assigning, modalVars,
                   smartVars, tasks, fetches, faults, fnVars>>

\* ------------------------------------------------ create-student function
\* the id supabase.auth.admin.createUser gives the principal of request r
NewUserId(r) == 100 + r

\* .select('roll_number').eq('class_instance_id', cls)
\*    .order('roll_number', {ascending: false}).limit(1)
HighestRoll(tbl, cls) ==
    LET ns == {s.roll_number : s \in {x \in tbl : x.class_instance_id = cls}}
    IN  IF ns = {} THEN <<>>
        ELSE <<[roll_number |-> CHOOSE n \in ns : \A m \in ns : m <= n]>>

\* (existingStudents?.[0]?.roll_number || 0) + 1
RollNumber(existingStudents) ==
    (IF existingStudents = <<>> THEN 0 ELSE existingStudents[1].roll_number) + 1

\* the row the function inserts into student
StudentRow(id, cls, roll) ==
    [id |-> id, class_instance_id |-> cls, roll_number |-> roll,
     school_code |-> "S1", role |-> "student"]

Respond(r, q, status, error) ==
    requests' = [requests EXCEPT ![r] =
                   [q EXCEPT !.pc = "sent", !.status = status, !.error = error]]

\* the request is received: the requester is looked up from the token
\* (known is FALSE when getUser gives an error or no user) and its role is
\* checked
FnReceive(r, cls, known, role) ==
    /\ requests[r].pc = "none"
    /\ LET q == [requests[r] EXCEPT !.cls = Some(cls)]
       IN  IF ~known THEN Respond(r, q, 401, "Unauthorized")
           ELSE IF role \notin {"superadmin", "admin"}
              THEN Respond(r, q, 403, "Forbidden")
              ELSE requests' = [requests EXCEPT ![r] = [q EXCEPT !.pc = "create"]]
    /\ UNCHANGED <<authUsers, studentTbl>>

\* auth.admin.createUser and what follows, to the await of the roll number
FnCreateUser(r, ok) ==
    /\ requests[r].pc = "create"
    /\ IF ok
          THEN /\ authUsers' = authUsers \cup {NewUserId(r)}
               /\ requests' = [requests EXCEPT ![r].pc = "roll",
                                               ![r].user = Some(NewUserId(r))]
          ELSE /\ Respond(r, requests[r], 400, "createError")
               /\ UNCHANGED authUsers
    /\ UNCHANGED studentTbl

\* the select of the highest roll number (its error is not looked at: data
\* is then null) and what follows, to the await of the insert
FnRollNumber(r, ok) ==
    /\ requests[r].pc = "roll"
    /\ LET existingStudents ==
              IF ok THEN HighestRoll(studentTbl, Val(requests[r].cls)) ELSE <<>>
       IN  requests' = [requests EXCEPT ![r].pc = "insert",
                           ![r].roll = Some(RollNumber(existingStudents))]
    /\ UNCHANGED <<authUsers, studentTbl>>

\* the insert into student and what follows: the success response, or the
\* await of the clean-up
FnInsert(r, ok) ==
    /\ requests[r].pc = "insert"
    /\ IF ok
          THEN /\ studentTbl' = studentTbl \cup
                      {StudentRow(Val(requests[r].user), Val(requests[r].cls),
                                  Val(requests[r].roll))}
               /\ Respond(r, requests[r], 200, "")
          ELSE /\ requests' = [requests EXCEPT ![r].pc = "cleanup"]
               /\ UNCHANGED studentTbl
    /\ UNCHANGED authUsers

\* auth.admin.deleteUser (its result is not looked at) and the error
\* response
FnDeleteUser(r, ok) ==
    /\ requests[r].pc = "cleanup"
    /\ authUsers' = IF ok THEN authUsers \ {Val(requests[r].user)} ELSE authUsers
    /\ Respond(r, requests[r], 500, "insertError")
    /\ UNCHANGED studentTbl

\* a call awaited inside the try block rejects: the catch block answers
\* with the exception's message and does nothing else
FnThrow(r) ==
    /\ requests[r].pc \in {"create", "roll", "insert", "cleanup"}
    /\ Respond(r, requests[r], 500, "exception")
    /\ UNCHANGED <<authUsers, studentTbl>>

\* ------------------------------------------------------- specifications
\* a store call of the page returns an error (ok is FALSE) or not
Fault(ok) ==
    /\ ok \/ faults < MaxFaults
    /\ faults' = IF ok THEN faults ELSE faults + 1
    /\ UNCHANGED <<fnVars, numVars>>

\* the selections of class, date and source date
PickClass(c, KS) == (\E k \in KS : SelectClass(c, k)) /\ UNCHANGED <<faults, fnVars, numVars>>
PickDate(c, DS) == (\E d \in DS : SelectDate(c, d)) /\ UNCHANGED <<faults, fnVars, numVars>>
PickSource(c, DS) == (\E d \in DS : SetCopyFromDate(c, d)) /\ UNCHANGED <<faults, fnVars, numVars>>

\* the view Select
Switch(c) ==
    /\ \E m \in {"day", "month"} : SetViewMode(c, m)
    /\ UNCHANGED <<faults, fnVars, numVars>>

\* the handlers of the smart-add form are called, the start times drawn
\* from TS, the durations from D
InvokeForm(c, TS, D) ==
    /\ \/ \E time \in TS : HandleStartTimeChange(c, time)
       \/ \E val \in D : HandleDurationChange(c, val)
    /\ UNCHANGED <<faults, fnVars, numVars>>

\* the smart-add form, as the page renders it
Form(c, TS, D) == GridFree(c) /\ InvokeForm(c, TS, D)

\* the grid's buttons and the assign modal, the periods drawn from PS and
\* the subjects from SS
ModalOn(c, PS, SS) ==
    /\ \/ \E pn \in PS : OpenEditModal(c, pn)
       \/ \E s \in SS : PickSubject(c, s)
       \/ \E s \in Teachers : PickTeacher(c, s)
       \/ CancelModal(c)
    /\ UNCHANGED <<faults, fnVars, numVars>>

Modal(c) == ModalOn(c, 1..MaxPeriods, Subjects)

\* Add Period is clicked / the handler goes on from an await
InvokeAdd(c) == HandleAddSmartPeriod(c) /\ UNCHANGED <<faults, fnVars, numVars>>
CallAdd(c) == GridFree(c) /\ InvokeAdd(c)
ResumeAdd(c) ==
    \E t \in tasks[c], ok \in BOOLEAN :
       /\ AddRead(c, t, ok) \/ AddInsert(c, t, ok)
       /\ Fault(ok)

\* the modal's OK is clicked / the handler goes on from an await
CallAssign(c) == HandleAssign(c) /\ UNCHANGED <<faults, fnVars, numVars>>
ResumeAssign(c) ==
    \E t \in tasks[c], ok \in BOOLEAN :
       /\ AssignDelete(c, t, ok) \/ AssignInsert(c, t, ok)
       /\ Fault(ok)

\* Copy Timetable is clicked / the handler goes on from an await
CallCopy(c) == HandleCopyTimetable(c) /\ UNCHANGED <<faults, fnVars, numVars>>
ResumeCopy(c) ==
    \E t \in tasks[c], ok \in BOOLEAN :
       /\ CopyRead(c, t, ok) \/ CopyDelete(c, t, ok) \/ CopyInsert(c, t, ok)
       /\ Fault(ok)

\* a handler returns / a fetch goes on from its await
Settle(c) ==
    \/ \E t \in tasks[c] : Return(c, t) /\ UNCHANGED <<faults, fnVars, numVars>>
    \/ \E f \in fetches[c], ok \in BOOLEAN :
          /\ FetchPeriodsDone(c, f, ok) \/ FetchTimetableDone(c, f, ok)
          /\ Fault(ok)

\* a fetchPeriods or a fetchTimetable goes on from its await
Refresh(c) ==
    \E f \in fetches[c], ok \in BOOLEAN :
       /\ FetchPeriodsDone(c, f, ok) \/ FetchTimetableDone(c, f, ok)
       /\ Fault(ok)

\* a fetchMonthData goes on from its await
SettleMonth(c) ==
    \E f \in fetches[c], ok \in BOOLEAN : FetchMonthDone(c, f, ok) /\ Fault(ok)

\* a day of the month view's Calendar is clicked
Calendar(c, DS) == (\E d \in DS : MonthSelectDate(c, d)) /\ UNCHANGED <<faults, fnVars, numVars>>

\* the page is left as it is
PageStill ==
    UNCHANGED <<storeVars, selVars, viewVars, loading, assigning, modalVars,
                smartVars, tasks, fetches, faults, numVars>>

\* the create-student function serves its requests, their awaits interleaved
NextFn ==
    \E r \in FnRequests :
       \/ /\ \E cls \in Classes, known \in BOOLEAN, role \in Roles :
                FnReceive(r, cls, known, role)
          /\ PageStill
       \/ (\E ok \in BOOLEAN : FnCreateUser(r, ok)) /\ PageStill
       \/ (\E ok \in BOOLEAN : FnRollNumber(r, ok)) /\ PageStill
       \/ (\E ok \in BOOLEAN : FnInsert(r, ok)) /\ PageStill
       \/ (\E ok \in BOOLEAN : FnDeleteUser(r, ok)) /\ PageStill
       \/ FnThrow(r) /\ PageStill

SpecFn == Init /\ [][NextFn]_vars

\* no handler that writes to the store is in flight in any session
Quiet == \A c \in Clients : tasks[c] = {}

\* nothing is in flight in any session
Idle == \A c \in Clients : tasks[c] = {} /\ fetches[c] = {}

\* nothing is in flight in session c
IdleAt(c) == tasks[c] = {} /\ fetches[c] = {}

\* every session does whatever its page lets it do, at any time
Next ==
    \E c \in Clients :
       \/ PickClass(c, Classes)
       \/ PickDate(c, Nullable(Days)) \/ PickSource(c, Nullable(Days))
       \/ Switch(c) \/ Calendar(c, Days) \/ SettleMonth(c)
       \/ Form(c, Nullable(StartTimes), UIDurations)
       \/ Modal(c)
       \/ CallAdd(c) \/ CallAssign(c) \/ CallCopy(c)
       \/ ResumeAdd(c) \/ ResumeAssign(c) \/ ResumeCopy(c)
       \/ Settle(c)

Spec == Init /\ [][Next]_vars

\* one session adds periods to one class, the durations drawn from D, each
\* operation run to completion before the page takes the next input
NextAdd(D) ==
    \/ /\ Idle
       /\ \/ PickClass(1, {1})
          \/ Form(1, Nullable(StartTimes), D)
          \/ CallAdd(1)
    \/ ResumeAdd(1)
    \/ Settle(1)

\* the durations are options of the Select
NextForm == NextAdd(SomeDurations)

SpecForm == Init /\ [][NextForm]_vars

\* handleDurationChange is called with values the Select does not offer
NextAnyDuration == NextAdd(AnyDurations)

SpecAnyDuration == Init /\ [][NextAnyDuration]_vars

\* the handlers of the smart-add form are called whatever the page shows,
\* also before a class is selected
NextDirect ==
    \/ /\ Idle
       /\ \/ PickClass(1, {1})
          \/ InvokeForm(1, Nullable({540}), {DefaultDuration, 30})
          \/ InvokeAdd(1)
    \/ ResumeAdd(1)
    \/ Settle(1)

SpecDirect == Init /\ [][NextDirect]_vars

\* two sessions add periods to the same class: each session runs its
\* operations to completion one after the other, and the steps of the two
\* sessions interleave
NextRace ==
    \E c \in Clients :
       \/ /\ IdleAt(c)
          /\ \/ PickClass(c, {1})
             \/ Form(c, {Some(540)}, {DefaultDuration})
             \/ CallAdd(c)
       \/ ResumeAdd(c)
       \/ Settle(c)

SpecRace == Init /\ [][NextRace]_vars

\* one session assigns and copies on one class whose periods exist, each
\* operation run to completion before the page takes the next input
NextSeq ==
    \/ /\ Idle
       /\ \/ PickClass(1, {1})
          \/ PickDate(1, Nullable(Days))
          \/ PickSource(1, Nullable(Days))
          \/ Modal(1)
          \/ CallAssign(1)
          \/ CallCopy(1)
    \/ ResumeAssign(1)
    \/ ResumeCopy(1)
    \/ Settle(1)

SpecSeq == InitSeeded /\ [][NextSeq]_vars

\* one session assigns and copies on a class whose timetable of 5 January
\* was written by another session, each operation run to completion before
\* the page takes the next input
NextHandOver ==
    \/ /\ Idle
       /\ \/ PickClass(1, {1})
          \/ PickDate(1, {Some(d) : d \in Days})
          \/ PickSource(1, {Some(d) : d \in Days})
          \/ Modal(1)
          \/ CallAssign(1)
          \/ CallCopy(1)
    \/ ResumeAssign(1)
    \/ ResumeCopy(1)
    \/ Settle(1)

SpecHandOver == InitHandOver /\ [][NextHandOver]_vars

\* one session adds periods, assigns and copies on the date the page was
\* opened with, each operation run to completion before the page takes the
\* next input
NextOps ==
    \/ /\ Idle
       /\ \/ PickClass(1, {1})
          \/ PickSource(1, {Some(5)})
          \/ Form(1, {Some(540)}, {DefaultDuration})
          \/ CallAdd(1)
          \/ Modal(1)
          \/ CallAssign(1)
          \/ CallCopy(1)
    \/ ResumeAdd(1)
    \/ ResumeAssign(1)
    \/ ResumeCopy(1)
    \/ Settle(1)

SpecOps == InitHandOver /\ [][NextOps]_vars

\* one session looks at the months of a class, each fetch run to completion
\* before the page takes the next input
NextMonth ==
    \/ /\ Idle
       /\ \/ PickClass(1, Classes)
          \/ PickDate(1, Nullable(MonthDays))
          \/ Switch(1)
          \/ Calendar(1, Days)
    \/ SettleMonth(1)
    \/ Refresh(1)

SpecMonth == InitMonth /\ [][NextMonth]_vars

\* one session looks at the days of two classes and assigns, each operation
\* run to completion before the page takes the next input
NextGrid ==
    \/ /\ Idle
       /\ \/ PickClass(1, Classes)
          \/ PickDate(1, {Some(d) : d \in Days})
          \/ Modal(1)
          \/ CallAssign(1)
    \/ ResumeAssign(1)
    \/ Settle(1)

SpecGrid == InitGrid /\ [][NextGrid]_vars

\* two sessions assign period 1 of the same class and date, each its own
\* subject: each session runs its operations to completion one after the
\* other, and the steps of the two sessions interleave
NextAssignRace ==
    \E c \in Clients :
       \/ /\ IdleAt(c)
          /\ \/ PickClass(c, {1})
             \/ ModalOn(c, {1}, {c})
             \/ CallAssign(c)
       \/ ResumeAssign(c)
       \/ Settle(c)

SpecAssignRace == InitSeeded /\ [][NextAssignRace]_vars

\* one session switches between two classes and assigns, each operation run
\* to completion before the page takes the next input
NextSwitch ==
    \/ /\ Idle
       /\ \/ PickClass(1, Classes)
          \/ Modal(1)
          \/ CallAssign(1)
    \/ ResumeAssign(1)
    \/ Settle(1)

SpecSwitch == InitSeeded /\ [][NextSwitch]_vars

\* the same session, in a school whose two classes both have a period 1
SpecSchoolSwitch == InitSchool /\ [][NextSwitch]_vars

\* one session selects a class, moves to 20 January and copies from
\* 5 January on the store of InitHandOver, the page taking every input it
\* accepts while handlers and fetches are in flight
NextBusy ==
    \/ PickClass(1, Classes)
    \/ PickDate(1, {Some(20)})
    \/ PickSource(1, {Some(5)})
    \/ CallCopy(1)
    \/ ResumeCopy(1)
    \/ Settle(1)

SpecBusy == InitHandOver /\ [][NextBusy]_vars

\* the next period number is computed from every result of the select
NextNumber ==
    \/ ComputeNumber
    \/ ReadNumber

SpecNumber == InitNumber /\ [][NextNumber]_vars

\* one session assigns period 1 and copies from 5 February on class 1 of the
\* school of InitSchool, among three dates, each operation run to completion
\* before the page takes the next input
NextFrame ==
    \/ /\ Idle
       /\ \/ PickClass(1, {1})
          \/ PickDate(1, {Some(d) : d \in MonthDays})
          \/ PickSource(1, {Some(36)})
          \/ ModalOn(1, {1}, {1})
          \/ CallAssign(1)
          \/ CallCopy(1)
    \/ ResumeAssign(1)
    \/ ResumeCopy(1)
    \/ Settle(1)

SpecFrame == InitSchool /\ [][NextFrame]_vars

\* one session assigns period 1 and copies from 5 January on the store of
\* InitHandOver, one operation at a time, and moves to another class or to
\* 20 January whenever the page lets it, also while the operation is in flight
NextInFlight ==
    \/ PickClass(1, Classes)
    \/ PickDate(1, {Some(20)})
    \/ /\ Idle
       /\ \/ PickSource(1, {Some(5)})
          \/ ModalOn(1, {1}, {1})
          \/ CallAssign(1)
          \/ CallCopy(1)
    \/ ResumeAssign(1)
    \/ ResumeCopy(1)
    \/ Settle(1)

SpecInFlight == InitHandOver /\ [][NextInFlight]_vars

\* one session adds a period, assigns period 1 and copies from 5 January on
\* the store of InitHandOver, one operation at a time, and moves to another
\* class or clears the date whenever the page lets it, also while the
\* operation is in flight
NextFlags ==
    \/ PickClass(1, Classes)
    \/ PickDate(1, {Null})
    \/ /\ Idle
       /\ \/ PickSource(1, {Some(5)})
          \/ Form(1, {Some(630)}, {DefaultDuration})
          \/ CallAdd(1)
          \/ ModalOn(1, {1}, {1})
          \/ CallAssign(1)
          \/ CallCopy(1)
    \/ ResumeAdd(1)
    \/ ResumeAssign(1)
    \/ ResumeCopy(1)
    \/ Settle(1)

SpecFlags == InitHandOver /\ [][NextFlags]_vars

\* one session moves between the classes and the dates on the store of
\* InitHandOver, which nothing writes to, its fetches answered in any order
NextBrowse ==
    \/ PickClass(1, Classes)
    \/ PickDate(1, {Some(d) : d \in Days})
    \/ Refresh(1)

SpecBrowse == InitHandOver /\ [][NextBrowse]_vars

\* =============================================================== claims
AllTasks == UNION {tasks[c] : c \in Clients}

\* the period numbers a class has rows for on a date
NumbersOn(tbl, cls, date) ==
    {r.period_number : r \in DOMAIN OnDate(tbl, cls, date)}

\* the minute of the day an 'HH:mm:ss' text names
MinutesOf(text) == text[1] * 60 + text[2]

\* C1: whatever assign and copy operations have run one after the other,
\* store failures included, the timetable table holds at most one row per
\* (class_instance_id, class_date, period_number).
C1_OneAssignmentPerKey ==
    \A r \in DOMAIN timetableTbl :
       BagCardinality(OnKey(timetableTbl, r.class_instance_id, r.class_date,
                            r.period_number)) = 1

\* an assign has replaced the row its key had
C1_Witness ==
    \E t \in AllTasks :
       /\ t.op = "assign"
       /\ t.removed # EmptyBag
       /\ t.wrote # EmptyBag

\* C2: when an assign has succeeded, its key has exactly one row, and the
\* row carries the subject and the teacher of that call (also when the key
\* had a row with another subject before).
C2_AssignReplaces ==
    \A t \in AllTasks :
       (t.op = "assign" /\ t.toast = "Assignment saved successfully") =>
          LET K == OnKey(timetableTbl, Val(t.cls), FormatDate(Val(t.date)),
                         Val(t.pn))
          IN  /\ BagCardinality(K) = 1
              /\ \A r \in DOMAIN K : /\ r.subject_id = Val(t.subject)
                                     /\ r.admin_id = Val(t.teacher)

\* a second assign on a key has succeeded with another subject than the row
\* it replaced
C2_Witness ==
    \E t \in AllTasks :
       /\ t.op = "assign"
       /\ t.toast = "Assignment saved successfully"
       /\ \E r \in DOMAIN t.removed : r.subject_id # Val(t.subject)

\* C3: an assign whose period number is not in the catalog of its class
\* ends with "Period not found" and has neither deleted nor inserted.
C3_AssignNeedsCatalogPeriod ==
    \A t \in AllTasks :
       ( /\ t.op = "assign"
         /\ t.subject # Null
         /\ t.teacher # Null
         /\ \A r \in DOMAIN PeriodsOfClass(periodsTbl, Val(t.cls)) :
               Some(r.period_number) # t.pn ) =>
          /\ t.pc = "done"
          /\ t.toast = "Period not found"
          /\ t.removed = EmptyBag
          /\ t.wrote = EmptyBag

\* C4: when a copy has succeeded, the target date has rows for exactly the
\* period numbers of the source date.
C4_CopyOverwrites ==
    \A t \in AllTasks :
       (t.op = "copy" /\ t.toast = "Timetable copied successfully") =>
          /\ NumbersOn(timetableTbl, Val(t.cls), FormatDate(Val(t.date)))
                = NumbersOn(timetableTbl, Val(t.cls), FormatDate(Val(t.from)))
          /\ NumbersOn(timetableTbl, Val(t.cls), FormatDate(Val(t.date)))
                = {e.period_number : e \in DOMAIN t.data}

\* a copy between two dates has succeeded and has removed from the target
\* date the row of a period that the source date does not have
C4_Witness ==
    \E t \in AllTasks :
       /\ t.op = "copy"
       /\ t.toast = "Timetable copied successfully"
       /\ t.from # t.date
       /\ \E r \in DOMAIN t.removed :
             r.period_number \notin {e.period_number : e \in DOMAIN t.data}

\* C5: the step in which a copy reads a source date without rows leaves the
\* timetable table as it is and ends the copy with "No timetable found for
\* that date": the copy never gets to its delete or its insert.
C5_EmptySourceStep(t) ==
    ( /\ t.op = "copy"
      /\ t.pc = "read"
      /\ OnDate(timetableTbl, Val(t.cls), FormatDate(Val(t.from))) = EmptyBag
      /\ t \notin AllTasks'
      /\ faults' = faults ) =>
       /\ timetableTbl' = timetableTbl
       /\ \E t2 \in AllTasks' \ AllTasks :
             /\ t2.pc = "done"
             /\ t2.toast = "No timetable found for that date"
             /\ t2.removed = EmptyBag
             /\ t2.wrote = EmptyBag

C5_CopyFromEmptySource == [][\A t \in AllTasks : C5_EmptySourceStep(t)]_vars

\* a copy from a date without rows has ended so while the target date has
\* rows
C5_Witness ==
    \E t \in AllTasks :
       /\ t.op = "copy"
       /\ t.toast = "No timetable found for that date"
       /\ t.date # Null
       /\ OnDate(timetableTbl, Val(t.cls), FormatDate(Val(t.date))) # EmptyBag

\* C6: when the adds have run one after the other, every class has its
\* periods numbered exactly 1..N, each add has given its row the number N of
\* rows the class then has, and the list fetchPeriods has given the page is
\* numbered 1, 2, ... in this order.
C6_NumberedOneToN ==
    /\ \A k \in Classes :
          LET B == PeriodsOfClass(periodsTbl, k)
          IN  {r.period_number : r \in DOMAIN B} = 1..BagCardinality(B)
    /\ \A c \in Clients : \A i \in DOMAIN periods[c] :
          periods[c][i].period_number = i
    /\ \A t \in AllTasks : \A r \in DOMAIN t.wrote :
          t.op = "add" =>
             r.period_number =
                BagCardinality(PeriodsOfClass(periodsTbl, r.class_instance_id))

\* a second add has succeeded and the page holds the two periods
C6_Witness ==
    \E c \in Clients :
       /\ Len(periods[c]) = 2
       /\ BagCardinality(PeriodsOfClass(periodsTbl, 1)) = 2

\* C7: no two rows of the periods table have the same class and the same
\* period number.
C7_UniquePeriodNumbers ==
    \A r \in DOMAIN periodsTbl :
       BagCardinality(BagFilter(periodsTbl,
          LAMBDA q : /\ q.class_instance_id = r.class_instance_id
                     /\ q.period_number = r.period_number)) = 1

\* C8: the row an add has inserted has the wall-clock start time that was
\* set and, as its end time, the wall-clock time the duration of that moment
\* after it.
C8_EndIsStartPlusDuration ==
    \A t \in AllTasks : \A r \in DOMAIN t.wrote :
       t.op = "add" =>
          /\ r \in DOMAIN periodsTbl
          /\ MinutesOf(r.start_time) = Val(t.start) % (24 * 60)
          /\ MinutesOf(r.end_time) = (MinutesOf(r.start_time) + t.dur) % (24 * 60)

\* a period has been added after the duration had been changed
C8_Witness ==
    \E t \in AllTasks :
       /\ t.op = "add"
       /\ t.wrote # EmptyBag
       /\ t.dur # DefaultDuration

\* C9: every row of the periods table ends after it starts, as wall-clock
\* times.
C9_EndAfterStart ==
    \A r \in DOMAIN periodsTbl : TextLess(r.start_time, r.end_time)

C11_NoClassRejected ==
    \A t \in AllTasks :
       (t.op = "add" /\ t.cls = Null) =>
          /\ t.pc = "done"
          /\ t.toast = "Please select class and time"
          /\ t.wrote = EmptyBag

\* an add has been called with a start and an end time set and no class
\* selected
C11_Witness ==
    \E t \in AllTasks :
       /\ t.op = "add"
       /\ t.cls = Null
       /\ t.start # Null
       /\ t.end # Null
       /\ periodsTbl = EmptyBag

\* the columns of a row that a copy keeps
KeptColumns(r) ==
    [period_number |-> r.period_number, subject_id |-> r.subject_id,
     admin_id |-> r.admin_id, start_time |-> r.start_time,
     end_time |-> r.end_time]

\* C12: when a copy has succeeded, the rows of the target date are, one for
\* one, the rows of the source date with the same period number, subject,
\* teacher, start and end time, and each carries the target date and the
\* school code and created_by of the session that copied.
C12_CopyKeepsAndStamps ==
    \A c \in Clients : \A t \in tasks[c] :
       (t.op = "copy" /\ t.toast = "Timetable copied successfully") =>
          LET src == OnDate(timetableTbl, Val(t.cls), FormatDate(Val(t.from)))
              tgt == BagFilter(timetableTbl,
                        LAMBDA r : /\ r.class_instance_id = Val(t.cls)
                                   /\ r.class_date = <<2025, 1, Val(t.date)>>)
          IN  /\ BagMap(KeptColumns, tgt) = BagMap(KeptColumns, src)
              /\ BagCardinality(tgt) = BagCardinality(src)
              /\ \A r \in DOMAIN tgt :
                    /\ r.school_code = "S1"
                    /\ r.created_by = (IF c = 1 THEN "SA1" ELSE "SA2")

\* a copy between two dates has succeeded with two source rows that another
\* session created
C12_Witness ==
    \E c \in Clients : \E t \in tasks[c] :
       /\ t.op = "copy"
       /\ t.toast = "Timetable copied successfully"
       /\ t.from # t.date
       /\ BagCardinality(t.data) = 2
       /\ \A r \in DOMAIN OnDate(timetableTbl, Val(t.cls), FormatDate(Val(t.from))) :
             r.created_by # CreatedByOf(c)

\* C14: every row an assign or a copy has inserted carries the school code
\* and the created_by of the session that ran it, whoever created the rows
\* it replaced or copied; no row of the table is without the school code.
C14_RowsCarryTheSession ==
    /\ \A c \in Clients : \A t \in tasks[c] : \A r \in DOMAIN t.wrote :
          t.op \in {"assign", "copy"} =>
             /\ r \in DOMAIN timetableTbl
             /\ r.school_code = "S1"
             /\ r.created_by = (IF c = 1 THEN "SA1" ELSE "SA2")
    /\ \A r \in DOMAIN timetableTbl : r.school_code = "S1"

\* a session has assigned on a key whose row another session had created,
\* and the table holds rows of both sessions
C14_Witness ==
    \E c \in Clients : \E t \in tasks[c] :
       /\ t.op = "assign"
       /\ t.wrote # EmptyBag
       /\ \E r \in DOMAIN t.removed : r.created_by # CreatedByOf(c)
       /\ \E r \in DOMAIN timetableTbl : r.created_by # CreatedByOf(c)

\* the messages with which the operations report success and failure
SuccessMessages ==
    {"Added period", "Assignment saved successfully",
     "Timetable copied successfully"}
FailureMessages ==
    {"Error checking existing periods", "Error adding period",
     "Error removing existing assignment", "Error saving assignment",
     "Error fetching source timetable", "Error clearing target date",
     "Error copying timetable"}

\* C13: the step in which a store call of an add, an assign or a copy
\* fails ends the operation with a failure message and no insert, also when
\* its delete has been done; an operation gets to its next store call, or
\* to its success message, only in a step whose store call did not fail, and
\* the success message only from its insert.
C13_FailedStep(c, t) ==
    (t.pc \in {"read", "delete", "insert"} /\ t \notin tasks'[c]
       /\ faults' # faults) =>
       \E t2 \in tasks'[c] \ tasks[c] :
          /\ t2.op = t.op
          /\ t2.pc = "done"
          /\ t2.toast \in FailureMessages
          /\ t2.wrote = EmptyBag
          /\ t2.removed = t.removed

C13_NextStep(c, t2) ==
    /\ (t2.pc \in {"delete", "insert"} \/ t2.toast \in SuccessMessages) =>
          faults' = faults
    /\ t2.toast \in SuccessMessages =>
          \E t \in tasks[c] \ tasks'[c] : t.op = t2.op /\ t.pc = "insert"

C13_FailureIsReported ==
    [][\A c \in Clients :
          /\ \A t \in tasks[c] : C13_FailedStep(c, t)
          /\ \A t2 \in tasks'[c] \ tasks[c] : C13_NextStep(c, t2)]_vars

\* a copy has reported the failure of its insert after its delete had
\* removed rows
C13_Witness ==
    \E t \in AllTasks :
       /\ t.op = "copy"
       /\ t.toast = "Error copying timetable"
       /\ t.removed # EmptyBag

\* the rows of a class whose date is in the year and month of the text
RowsOfMonth(tbl, cls, text) ==
    BagFilter(tbl, LAMBDA r : /\ r.class_instance_id = cls
                              /\ r.class_date[1] = text[1]
                              /\ r.class_date[2] = text[2])

RECURSIVE SumOf(_)
SumOf(f) ==
    IF DOMAIN f = {} THEN 0
    ELSE LET d == CHOOSE x \in DOMAIN f : TRUE
         IN  f[d] + SumOf([x \in DOMAIN f \ {d} |-> f[x]])

\* C15: when a fetchMonthData has returned, countsByDate has a key for
\* exactly the dates of the fetched month on which the class has rows, its
\* value is the number of the rows of that date, and the values add up to
\* the number of rows the class has in the month.
C15_MonthStep(c, f) ==
    (f.kind = "month" /\ f \notin fetches'[c] /\ faults' = faults
       /\ viewMode'[c] = "month") =>
       LET counts == CountsByDate(monthData'[c])
           rows == RowsOfMonth(timetableTbl, f.cls, FormatDate(Val(f.date)))
       IN  /\ DOMAIN counts = {r.class_date : r \in DOMAIN rows}
           /\ \A d \in DOMAIN counts :
                 counts[d] = BagCardinality(OnDate(timetableTbl, f.cls, d))
           /\ SumOf(counts) = BagCardinality(rows)

C15_MonthCounts ==
    [][\A c \in Clients : \A f \in fetches[c] : C15_MonthStep(c, f)]_vars

\* the month view of January shows 2 for the 5th and 1 for the 20th and has
\* no other key, while the class has a row on 5 February
C15_Witness ==
    /\ viewMode[1] = "month"
    /\ CountsByDate(monthData[1]) = (<<2025, 1, 5>> :> 2 @@ <<2025, 1, 20>> :> 1)
    /\ \E r \in DOMAIN timetableTbl : r.class_date = <<2025, 2, 5>>

\* the names the reference data has for an id
NameOfSubject(id) == IF id = 1 THEN "Maths" ELSE IF id = 2 THEN "Physics" ELSE "-"
NameOfTeacher(id) == IF id = 7 THEN "Asha" ELSE "-"

\* C16: when the page has settled without a failed call, the grid of the
\* selected class and date has one row per period of the class, in
\* ascending period number; the row of a period that has an assignment on
\* the date shows the names of its subject and teacher ("-" for an id the
\* reference data does not have), and the row of a period without one shows
\* "-" and "-".
C16_GridOfTheDay ==
    \A c \in Clients :
       ( /\ IdleAt(c) /\ faults = 0 /\ viewMode[c] = "day"
         /\ selectedClass[c] # Null /\ selectedDate[c] # Null ) =>
          LET grid == RenderGrid(c)
              cls == Val(selectedClass[c])
              day == FormatDate(Val(selectedDate[c]))
          IN  /\ Len(grid) = BagCardinality(PeriodsOfClass(periodsTbl, cls))
              /\ {grid[i].period_number : i \in DOMAIN grid}
                    = {r.period_number : r \in DOMAIN PeriodsOfClass(periodsTbl, cls)}
              /\ \A i, j \in DOMAIN grid :
                    i < j => grid[i].period_number < grid[j].period_number
              /\ \A i \in DOMAIN grid :
                    LET on == OnKey(timetableTbl, cls, day, grid[i].period_number)
                    IN  IF on = EmptyBag
                           THEN grid[i].subject = "-" /\ grid[i].teacher = "-"
                           ELSE \A r \in DOMAIN on :
                                   /\ grid[i].subject = NameOfSubject(r.subject_id)
                                   /\ grid[i].teacher = NameOfTeacher(r.admin_id)

\* the settled grid has the row of a period that was just assigned, with
\* both names, and the row of a period whose subject is not in the reference
\* data, with its teacher's name only
C16_Witness ==
    /\ IdleAt(1) /\ faults = 0 /\ viewMode[1] = "day"
    /\ selectedClass[1] # Null /\ selectedDate[1] # Null
    /\ Len(RenderGrid(1)) = 2
    /\ RenderGrid(1)[1].subject = "Maths" /\ RenderGrid(1)[1].teacher = "Asha"
    /\ RenderGrid(1)[2].subject = "-" /\ RenderGrid(1)[2].teacher = "Asha"

\* C17: a request of create-student that has answered with the error of its
\* student insert has left neither the principal it created nor a student
\* row of it.
C17_FailedInsertLeavesNothing ==
    \A r \in FnRequests :
       (requests[r].pc = "sent" /\ requests[r].error = "insertError") =>
          /\ Val(requests[r].user) \notin authUsers
          /\ \A x \in studentTbl : x.id # Val(requests[r].user)

\* the rows of the key (assign) or of the target date (copy) of a task
TargetRows(tbl, t) ==
    IF t.op = "assign"
       THEN OnKey(tbl, Val(t.cls), FormatDate(Val(t.date)), Val(t.pn))
       ELSE OnDate(tbl, Val(t.cls), FormatDate(Val(t.date)))

\* C18: an assign or a copy gets to its insert only in the step in which
\* its delete has returned without error and has emptied its target; up to
\* its delete it leaves the table as it is; the step in which its delete
\* fails leaves the table as it is and ends it with the delete's error; and
\* rows are only ever added by a task that stands at its insert.
C18_DeleteFailed(t) ==
    (t.op \in {"assign", "copy"} /\ t.pc = "delete" /\ t \notin AllTasks'
       /\ faults' # faults) =>
       /\ timetableTbl' = timetableTbl
       /\ \E t2 \in AllTasks' \ AllTasks :
             /\ t2.pc = "done"
             /\ t2.toast \in {"Error removing existing assignment",
                               "Error clearing target date"}
             /\ t2.removed = EmptyBag
             /\ t2.wrote = EmptyBag

C18_Sequenced(t2) ==
    /\ (t2.op \in {"assign", "copy"} /\ t2.pc = "delete") =>
          timetableTbl' = timetableTbl
    /\ (t2.op \in {"assign", "copy"} /\ t2.pc = "insert") =>
          /\ faults' = faults
          /\ \E t \in AllTasks \ AllTasks' : t.op = t2.op /\ t.pc = "delete"
          /\ TargetRows(timetableTbl', t2) = EmptyBag

C18_InsertAfterDelete ==
    [][/\ \A t \in AllTasks : C18_DeleteFailed(t)
       /\ \A t2 \in AllTasks' \ AllTasks : C18_Sequenced(t2)
       /\ BagCardinality(timetableTbl') > BagCardinality(timetableTbl) =>
             \E t \in AllTasks \ AllTasks' : t.pc = "insert"]_vars

\* a copy has ended with the error of its delete and the target date still
\* has its rows
C18_Witness ==
    \E t \in AllTasks :
       /\ t.op = "copy"
       /\ t.toast = "Error clearing target date"
       /\ TargetRows(timetableTbl, t) # EmptyBag

\* C19: when the insert of an assign has failed, the key has no row (the
\* row the delete removed is not put back), and when the insert of a copy
\* has failed, the target date has no row; both have reported the failure
\* of the insert.
C19_NoRollBack ==
    \A t \in AllTasks :
       /\ (t.op = "assign" /\ t.pc = "done" /\ t.removed # EmptyBag
              /\ t.wrote = EmptyBag) =>
             /\ t.toast = "Error saving assignment"
             /\ TargetRows(timetableTbl, t) = EmptyBag
       /\ (t.op = "copy" /\ t.pc = "done" /\ t.removed # EmptyBag
              /\ t.wrote = EmptyBag) =>
             /\ t.toast = "Error copying timetable"
             /\ TargetRows(timetableTbl, t) = EmptyBag
       /\ t.toast \in {"Error saving assignment", "Error copying timetable"} =>
             TargetRows(timetableTbl, t) = EmptyBag

\* an assign on a key that had a row has failed at its insert
C19_Witness ==
    \E t \in AllTasks :
       /\ t.op = "assign"
       /\ t.toast = "Error saving assignment"
       /\ t.removed # EmptyBag

\* C20: when the deletes and inserts of two sessions' assigns on one key
\* interleave, the key can come to hold two rows (the witness); what it then
\* holds is one row of each session: a key never has two rows of one
\* session, nor more rows than there are sessions.
C20_RaceLeavesOneRowPerSession ==
    \A r \in DOMAIN timetableTbl :
       LET K == OnKey(timetableTbl, r.class_instance_id, r.class_date,
                      r.period_number)
       IN  /\ BagCardinality(K) <= Cardinality(Clients)
           /\ \A q \in DOMAIN K : q.created_by = r.created_by => q = r
           /\ K[r] = 1

\* both sessions have been told "Assignment saved successfully" for the
\* same key, and the key holds two rows
C20_Witness ==
    \E t1 \in tasks[1], t2 \in tasks[2] :
       /\ t1.toast = "Assignment saved successfully"
       /\ t2.toast = "Assignment saved successfully"
       /\ t1.pn = t2.pn /\ t1.date = t2.date /\ t1.cls = t2.cls
       /\ BagCardinality(TargetRows(timetableTbl, t1)) = 2

\* C21: every row of the timetable table has the period number of a row
\* that the periods table has for the same class.
C21_AssignmentsReferToPeriods ==
    \A r \in DOMAIN timetableTbl :
       \E p \in DOMAIN periodsTbl :
          /\ p.class_instance_id = r.class_instance_id
          /\ p.period_number = r.period_number

\* C22: the row an assign has inserted carries the start and end times of
\* the row the periods table has for the row's class and period number.
C22_AssignCarriesPeriodTimes ==
    \A t \in AllTasks :
       t.op = "assign" =>
          \A r \in DOMAIN t.wrote :
             \E p \in DOMAIN periodsTbl :
                /\ p.class_instance_id = r.class_instance_id
                /\ p.period_number = r.period_number
                /\ p.start_time = r.start_time
                /\ p.end_time = r.end_time

\* the handlers of session c that use the loading flag and have not returned
LoadingTasks(c) == {t \in tasks[c] : t.op \in {"add", "copy"} /\ t.pc # "done"}

\* C23: while a handleAddSmartPeriod or a handleCopyTimetable of a session
\* is in flight the session's loading flag is set, and no second one is in
\* flight beside it.
C23_OneOperationAtATime ==
    \A c \in Clients :
       LoadingTasks(c) # {} => loading[c] /\ Cardinality(LoadingTasks(c)) = 1

\* C24: the number computed from a result of the select of the highest
\* period number is a positive integer, and it is 1 when the result has no
\* row or its row has no period_number.
C24_NextNumberIsPositive ==
    nextPeriodNumber # Null =>
       /\ Val(nextPeriodNumber) \in Nat \ {0}
       /\ (existing = <<>> \/ existing[1].period_number = Null) =>
             Val(nextPeriodNumber) = 1

\* the number was computed from a row that has no period_number
C24_Witness ==
    /\ existing # <<>>
    /\ existing[1].period_number = Null
    /\ nextPeriodNumber = Some(1)

\* the rows of both tables of this step other than the timetable rows that
\* satisfy Target are as many after the step as before it
OthersKept(Target(_)) ==
    /\ periodsTbl' = periodsTbl
    /\ \A r \in DOMAIN timetableTbl \cup DOMAIN timetableTbl' :
          ~Target(r) => CopiesIn(r, timetableTbl') = CopiesIn(r, timetableTbl)

\* a step of the handler t
StepOf(t) == t \in AllTasks /\ t \notin AllTasks'

\* C25: a step of a handleAssign leaves the periods table as it is, and
\* every timetable row of another class, another date or another period
\* number than the handler's.
C25_AssignKeepsOtherKeys ==
    [][\A t \in AllTasks :
          (t.op = "assign" /\ t.pc # "done" /\ StepOf(t)) =>
             OthersKept(LAMBDA r : /\ r.class_instance_id = Val(t.cls)
                                   /\ r.class_date = FormatDate(Val(t.date))
                                   /\ r.period_number = Val(t.pn))]_vars

\* an assign has replaced a row while the table holds a row of another date
\* of its class and a row of another class
C25_Witness ==
    \E t \in AllTasks :
       /\ t.op = "assign"
       /\ t.toast = "Assignment saved successfully"
       /\ t.removed # EmptyBag
       /\ \E r \in DOMAIN timetableTbl :
             r.class_instance_id = Val(t.cls) /\ r.class_date # FormatDate(Val(t.date))
       /\ \E r \in DOMAIN timetableTbl : r.class_instance_id # Val(t.cls)

\* C26: a step of a handleCopyTimetable leaves the periods table as it is,
\* and every timetable row of another class or another date than the
\* handler's target; when the source date is not the target date, the rows
\* of the source date are among them.
C26_CopyKeepsOtherDates ==
    [][\A t \in AllTasks :
          (t.op = "copy" /\ t.pc # "done" /\ StepOf(t)) =>
             /\ t.date = Null => timetableTbl' = timetableTbl
             /\ OthersKept(LAMBDA r : /\ t.date # Null
                                      /\ r.class_instance_id = Val(t.cls)
                                      /\ r.class_date = FormatDate(Val(t.date)))
             /\ (t.from # Null /\ t.from # t.date) =>
                   OnDate(timetableTbl', Val(t.cls), FormatDate(Val(t.from)))
                      = OnDate(timetableTbl, Val(t.cls), FormatDate(Val(t.from)))]_vars

\* a copy from another date has replaced rows while the table holds rows of
\* the source date, of a third date and of another class
C26_Witness ==
    \E t \in AllTasks :
       /\ t.op = "copy"
       /\ t.toast = "Timetable copied successfully"
       /\ t.from # t.date
       /\ t.removed # EmptyBag
       /\ OnDate(timetableTbl, Val(t.cls), FormatDate(Val(t.from))) # EmptyBag
       /\ \E r \in DOMAIN timetableTbl :
             /\ r.class_instance_id = Val(t.cls)
             /\ r.class_date \notin {FormatDate(Val(t.date)), FormatDate(Val(t.from))}
       /\ \E r \in DOMAIN timetableTbl : r.class_instance_id # Val(t.cls)

\* the handler t of session c has just been called
Started(c, t) ==
    /\ tasks[c] \subseteq tasks'[c]
    /\ t \in tasks'[c] \ tasks[c]
    /\ t.op \in {"assign", "copy"}

\* C27: a handleAssign or handleCopyTimetable holds the class and the date
\* that were selected when it was called, and each of its steps, the delete
\* and the insert alike, changes timetable rows of that class and date only,
\* whatever the selection has become meanwhile.
C27_TargetIsTheOneCaptured ==
    [][\A c \in Clients :
          /\ \A t \in tasks'[c] :
                Started(c, t) =>
                   t.cls = selectedClass[c] /\ t.date = selectedDate[c]
          /\ \A t \in tasks[c] :
                (t.op \in {"assign", "copy"} /\ t.pc # "done" /\ StepOf(t)) =>
                   \A r \in DOMAIN timetableTbl \cup DOMAIN timetableTbl' :
                      CopiesIn(r, timetableTbl') # CopiesIn(r, timetableTbl) =>
                         /\ r.class_instance_id = Val(t.cls)
                         /\ r.class_date = FormatDate(Val(t.date))]_vars

\* a copy stands between its delete, which removed rows, and its insert,
\* and the session has moved to another class and another date meanwhile
C27_Witness ==
    \E c \in Clients : \E t \in tasks[c] :
       /\ t.op = "copy"
       /\ t.pc = "insert"
       /\ t.removed # EmptyBag
       /\ selectedClass[c] # t.cls
       /\ selectedDate[c] # t.date

\* the fetchPeriods of session c that have not returned
PeriodsFetches(c) == {f \in fetches[c] : f.kind = "periods"}

\* the handleAssign of session c that have not returned
AssignTasks(c) == {t \in tasks[c] : t.op = "assign" /\ t.pc # "done"}

\* C28: when no handleAddSmartPeriod, handleCopyTimetable or fetchPeriods of
\* a session is in flight its loading flag is false, and when no handleAssign
\* is in flight its assigning flag is false.
C28_FlagsAreReset ==
    \A c \in Clients :
       /\ (LoadingTasks(c) = {} /\ PeriodsFetches(c) = {}) => ~loading[c]
       /\ AssignTasks(c) = {} => ~assigning[c]

\* a copy has returned on an exception thrown after its read, and nothing
\* that uses the flags is in flight
C28_Witness ==
    \E c \in Clients :
       /\ \E t \in tasks[c] :
             t.op = "copy" /\ t.toast = "Unexpected error" /\ t.data # EmptyBag
       /\ LoadingTasks(c) = {}
       /\ PeriodsFetches(c) = {}
       /\ AssignTasks(c) = {}
       /\ ~loading[c]
       /\ ~assigning[c]

\* C29: when no fetchTimetable of a session is in flight and none has
\* failed, the rows its day view holds are the store's rows of the class and
\* the date it has selected.
C29_ViewShowsSelection ==
    \A c \in Clients :
       ( /\ \A f \in fetches[c] : f.kind # "timetable"
         /\ faults = 0
         /\ selectedClass[c] # Null
         /\ selectedDate[c] # Null
         /\ viewMode[c] = "day" ) =>
          timetable[c] =
             {DayColumns(r) :
                r \in DOMAIN OnDate(timetableTbl, Val(selectedClass[c]),
                                    FormatDate(Val(selectedDate[c])))}

\* C30: once a request of create-student has been answered, the principal
\* it created exists exactly when the student row of that principal exists.
C30_PrincipalIffStudentRow ==
    \A r \in FnRequests :
       requests[r].pc = "sent" =>
          (NewUserId(r) \in authUsers <=> \E x \in studentTbl : x.id = NewUserId(r))

====
